---- MODULE Spec2Model ----
(***************************************************************************)
(* Model of the authenticated API client of myHealth: the axios instance   *)
(* with its request and response interceptors (api/client.ts), the token   *)
(* storage (utils/storage.ts) and the callers of the client that write the *)
(* token storage (AuthContext login / logout).                             *)
(*                                                                         *)
(* JavaScript runs handlers to completion on one event loop: a network     *)
(* response and all promise continuations it makes runnable (microtasks)   *)
(* form one step.  Each action below is one such step.                     *)
(***************************************************************************)
EXTENDS Integers, Sequences, FiniteSets, TLC

\* ---------------------------------------------------------------- bounds
NumReq == 3        \* requests the application issues through apiClient
MaxAuthReq == 2    \* how many of the requests are calls of AuthContext (login, signup, ...)
MaxAbandon == 1    \* how many waiting requests have their caller abandon them
NumSend == 2       \* sendMessage calls of the agent chat
MaxLoad == 2       \* loadConversation calls in flight at once
MaxFetch == 3      \* fetches started on the analytics page
MaxGets == 2       \* how many getAccessToken calls in a row are counted

Req == 1..NumReq
Null == 0                      \* null / no header
\* token pair i = access token i + refresh token i; the backend issues a new pair per
\* successful login or renewal (a request causes at most one of each)
Token == 1..(1 + NumReq + MaxAuthReq)

\* ------------------------------------------------------------- constants
RefreshCallTimeout == 0        \* raw axios.post: no timeout option, axios default 0 = none

\* callers: an ordinary API call, or AuthContext's login, signup, logout, checkAuth ("me")
Kinds == {"api", "login", "signup", "logout", "me"}
\* failures of an apiClient request: a 401, another status, no response (network error
\* or the 30 s timeout of apiClient)
Errors == {"401", "500", "timeout"}
\* failures of the renewal call: a 401 (or other status), no response (network error)
RefreshErrors == {"r401", "rnet"}

VARIABLES
    storage,             \* TokenStorage: mem = this.accessToken, sess = sessionStorage, loc = localStorage
    isRefreshing,        \* module flag of client.ts
    refreshSubscribers,  \* waiter list of client.ts: the requests whose handler awaits subscribeTokenRefresh()
    req,                 \* per request: its config (_retry, Authorization), its position, its caller's settlement
    issued,              \* backend: number of token pairs issued so far
    refreshCalls,        \* history: number of renewal calls issued
    redirects,           \* history: number of assignments window.location.href = '/login'
    n401,                \* history: number of first-time 401s handled while a refresh token was stored
    state,               \* AuthState of AuthProvider: user, isAuthenticated, isLoading, error
    probe,               \* history of direct calls of TokenStorage: last = the access token last
                         \*   written (null after clearTokens), gets = getAccessToken calls since
                         \*   the last write, got = what the last of them returned
    chat,                \* AgentProvider: messages, conversationId, isSending, error,
                         \*   abortControllerRef and the sendMessage / loadConversation calls
    page                 \* AnalyticsPage: fetchIdRef, chart data, error, isLoading and its fetches

vars == <<storage, isRefreshing, refreshSubscribers, req, issued, refreshCalls, redirects, n401,
          probe, state, chat, page>>

\* ------------------------------------------------------------ TokenStorage
setAccessToken(st, t) == [st EXCEPT !.mem = t, !.sess = t]

\* the same when sessionStorage.setItem throws (quota): the catch block only warns
setAccessTokenUnsaved(st, t) == [st EXCEPT !.mem = t]

\* faulty variant: the memory copy is not consulted
getAccessTokenFromSession(st) == st.sess

\* value returned by getAccessToken: memory first, then sessionStorage
getAccessToken(st) == IF st.mem # Null THEN st.mem ELSE st.sess

\* getAccessToken caches the sessionStorage value in memory
afterGetAccessToken(st) == IF st.mem # Null THEN st ELSE [st EXCEPT !.mem = st.sess]

setRefreshToken(st, t) == [st EXCEPT !.loc = t]

getRefreshToken(st) == st.loc

\* faulty variant: only the localStorage entry is removed
clearTokensKeepAccess(st) == [st EXCEPT !.loc = Null]

\* faulty variant: the localStorage entry is left behind
clearTokensKeepRefresh(st) == [st EXCEPT !.mem = Null, !.sess = Null]

clearTokens(st) == [mem |-> Null, sess |-> Null, loc |-> Null]

hasTokens(st) == getAccessToken(st) # Null \/ getRefreshToken(st) # Null

\* ------------------------------------------------------------ AuthState (AuthContext)
Nil == "null"                  \* null of the AuthState fields
TheUser == "user"              \* the User object of a response

initialState == [user |-> Nil, isAuthenticated |-> FALSE, isLoading |-> TRUE, error |-> Nil]

\* faulty variant: the flag is not recomputed from the user
setUserKeepsFlag(s, user) == [s EXCEPT !.user = user, !.isLoading = FALSE, !.error = Nil]

setUser(s, user) ==
    [s EXCEPT !.user = user, !.isAuthenticated = (user # Nil), !.isLoading = FALSE,
              !.error = Nil]

setError(s, error) == [s EXCEPT !.error = error, !.isLoading = FALSE]

clearError(s) == [s EXCEPT !.error = Nil]

\* what a call of AuthContext does to the AuthState before its request goes out
AuthOnCall(s, kind) ==
    IF kind \in {"login", "signup"} THEN [s EXCEPT !.isLoading = TRUE, !.error = Nil] ELSE s

\* ... when the promise of its request resolves
AuthOnOk(s, kind, t) ==
    CASE kind = "login" -> setUser(s, TheUser)
      [] kind = "signup" -> IF t = Null THEN [s EXCEPT !.isLoading = FALSE, !.error = Nil]
                            ELSE setUser(s, TheUser)
      [] kind = "logout" -> setUser(s, Nil)
      [] kind = "me" -> setUser(s, TheUser)
      [] OTHER -> s

\* ... and when it rejects with e
AuthOnError(s, kind, e) ==
    CASE kind \in {"login", "signup"} -> setError(s, e)
      [] kind = "logout" -> setUser(s, Nil)
      [] kind = "me" -> [s EXCEPT !.isLoading = FALSE]
      [] OTHER -> s

\* ------------------------------------------------------------ agent chat (AgentProvider)
\* messages are <<"temp", i>> (optimistic message of call i), <<"user", i>> and
\* <<"assistant", i>> (from the response to call i), <<"loaded", 0>> (a loaded conversation);
\* conversation ids: i = the conversation created by call i, NumSend + 1 = a loaded one.
\* call[i]: pc ("idle", "inflight", "done"), aborted (controller.signal.aborted), cid (the
\*     conversationIdRef value read by the call), outcome; history: before (messages when
\*     the call was made). loads: the getConversation requests in flight.
SendCall == 1..NumSend

NewCall ==
    [pc |-> "idle", aborted |-> FALSE, cid |-> Null, outcome |-> "none", before |-> <<>>]

initialChat ==
    [messages |-> <<>>, conversationId |-> Null, isLoading |-> FALSE, isSending |-> FALSE,
     error |-> Nil, controller |-> Null, call |-> [i \in SendCall |-> NewCall],
     loads |-> 0]

\* abortControllerRef.current?.abort()
AbortCurrent(c) ==
    [i \in SendCall |-> IF i = c.controller THEN [c.call[i] EXCEPT !.aborted = TRUE]
                        ELSE c.call[i]]

\* prev.filter((m) => m.id !== tempUserMessage.id)
WithoutTemp(msgs, i) == SelectSeq(msgs, LAMBDA m : m # <<"temp", i>>)

\* isSending after the finally block of call i
FinallyIsSending(c, i) == IF c.call[i].aborted THEN c.isSending ELSE FALSE

\* ------------------------------------------------------------ analytics page
\* fetch[f]: pc ("idle", "inflight", "done"), tab (which of the three fetch functions),
\* outcome; data[tab]: the fetch whose result the chart of the tab shows (0: empty).
Fetch == 1..MaxFetch
Tabs == {"exercise", "cardio", "trends"}

initialPage ==
    [fetchId |-> 0, fetch |-> [f \in Fetch |-> [pc |-> "idle", tab |-> "exercise", outcome |-> "none"]],
     activeTab |-> "exercise", selected |-> FALSE, data |-> [t \in Tabs |-> 0],
     error |-> Nil, isLoading |-> FALSE]

\* faulty variant: no stale request guard
IsCurrentAlways(fetchId, current) == TRUE

\* the stale request guard: fetchId === fetchIdRef.current
IsCurrent(fetchId, current) == fetchId = current

\* fetchExerciseHistory / fetchCardioHistory / fetchWorkoutTrends up to the await
StartFetch(p, tab) ==
    [p EXCEPT !.fetchId = @ + 1,
              !.fetch[p.fetchId + 1] = [pc |-> "inflight", tab |-> tab, outcome |-> "none"],
              !.isLoading = TRUE,
              !.error = Nil]

\* the effect that fetches for the active tab
FetchEffect(p) ==
    IF p.activeTab = "trends" THEN StartFetch(p, "trends")
    ELSE IF p.selected THEN StartFetch(p, p.activeTab)
    ELSE p

\* ------------------------------------------------------------ requests
\* pc: "idle" not issued, "sent" on the network, "queued" awaiting subscribeTokenRefresh(),
\*     "refreshing" awaiting its axios.post /auth/refresh, "hung" the same when the
\*     endpoint will never answer, "settled" the caller's promise is settled.
\* result: how the caller's promise settled ("ok", or the error it rejected with).
\* history fields: sends (dispatches), auth1 (header of the first dispatch), status (the
\*     last answer the request received), epoch (renewal call the request is attached to),
\*     told / resumed (what the renewal told it: "ok" with a token, or the renewal error),
\*     started (the request's handler issued a renewal call), abandoned (the caller
\*     aborted its AbortController while the request waited for the renewal).
NewRequest ==
    [kind |-> "api", pc |-> "idle", retry |-> FALSE, auth |-> Null, auth1 |-> Null,
     sends |-> 0, status |-> "none", result |-> "none", epoch |-> 0, told |-> "none",
     resumed |-> Null, started |-> FALSE, abandoned |-> FALSE]

Range(s) == {s[i] : i \in 1..Len(s)}

\* the renewal calls on the network
Outstanding == {r \in Req : req[r].pc \in {"refreshing", "hung"}}

Init ==
    /\ storage \in {[mem |-> Null, sess |-> a, loc |-> b] : a \in {Null, 1}, b \in {Null, 1}}
    /\ isRefreshing = FALSE
    /\ refreshSubscribers = <<>>
    /\ req = [r \in Req |-> NewRequest]
    /\ issued = 1
    /\ refreshCalls = 0
    /\ redirects = 0
    /\ n401 = 0
    /\ probe = [last |-> storage.sess, gets |-> 0, got |-> Null]
    /\ state = initialState
    /\ chat = initialChat
    /\ page = initialPage

\* ------------------------------------------------------------ request interceptor
\* faulty variant: the interceptor leaves the header as the caller built it
AuthHeaderKeep(st, hdr) == hdr

\* Authorization header after the request interceptor: the stored token if any
AuthHeader(st, hdr) == IF getAccessToken(st) # Null THEN getAccessToken(st) ELSE hdr

\* apiClient(config): request interceptor, then the request goes on the network
Dispatch(q, st) ==
    [q EXCEPT !.auth = AuthHeader(st, q.auth),
              !.auth1 = IF q.sends = 0 THEN AuthHeader(st, q.auth) ELSE @,
              !.pc = "sent",
              !.sends = @ + 1]

\* ------------------------------------------------------------ callers (AuthContext)
\* what the caller of a request does to the token storage when its promise resolves
\* (t is the session of the response body; a signup that awaits e-mail confirmation has none)
CallerOnOk(st, kind, t) ==
    CASE kind = "login" -> setRefreshToken(setAccessToken(st, t), t)
      [] kind = "signup" -> IF t = Null THEN st ELSE setRefreshToken(setAccessToken(st, t), t)
      [] kind = "logout" -> clearTokens(st)
      [] OTHER -> st

\* faulty variant: every caller clears the tokens when its request fails
CallerOnErrorClears(st, kind) == clearTokens(st)

\* faulty variant: logout clears the tokens only when its call succeeded
CallerOnErrorKeeps(st, kind) == IF kind = "me" THEN clearTokens(st) ELSE st

\* ... and when it rejects (logout clears in its finally block, checkAuth in its catch)
CallerOnError(st, kind) == IF kind \in {"logout", "me"} THEN clearTokens(st) ELSE st

\* how the AuthContext function settles for its own caller, given the result of its
\* request: login and signup rethrow, logout and checkAuth swallow the error
CallerSettles(kind, result) ==
    IF kind \in {"login", "signup"} /\ result # "ok" THEN "rejected" ELSE "resolved"

\* the sessions a 2xx response to a request of this kind can carry, i the next token pair
Granted(kind, i) ==
    CASE kind = "login" -> {i}
      [] kind = "signup" -> {Null, i}
      [] OTHER -> {Null}

RECURSIVE CallersOnError(_, _)
CallersOnError(st, subs) ==
    IF subs = <<>> THEN st
    ELSE CallersOnError(CallerOnError(st, req[Head(subs)].kind), Tail(subs))

RECURSIVE AuthOnErrors(_, _, _)
AuthOnErrors(s, subs, e) ==
    IF subs = <<>> THEN s
    ELSE AuthOnErrors(AuthOnError(s, req[Head(subs)].kind, e), Tail(subs), e)

\* ------------------------------------------------------------ actions
\* The application issues request r through apiClient (requests are numbered in issue order).
Send(r, k) ==
    /\ req[r].pc = "idle"
    /\ r > 1 => req[r - 1].pc # "idle"
    /\ k # "api" => Cardinality({x \in Req : req[x].kind # "api"}) < MaxAuthReq
    /\ k = "me" => hasTokens(storage)
    /\ req' = [req EXCEPT ![r] = Dispatch([@ EXCEPT !.kind = k], storage)]
    /\ storage' = afterGetAccessToken(storage)
    /\ state' = AuthOnCall(state, k)
    /\ UNCHANGED <<isRefreshing, refreshSubscribers, issued, refreshCalls, redirects, n401, probe, chat, page>>

\* The backend answers request r with a 2xx: response interceptor, then the caller.
RespondOk(r) ==
    /\ req[r].pc = "sent"
    /\ req' = [req EXCEPT ![r].pc = "settled", ![r].status = "ok", ![r].result = "ok"]
    /\ \E t \in Granted(req[r].kind, issued + 1) :
          /\ storage' = CallerOnOk(storage, req[r].kind, t)
          /\ state' = AuthOnOk(state, req[r].kind, t)
          /\ issued' = IF t # Null THEN issued + 1 ELSE issued
    /\ UNCHANGED <<isRefreshing, refreshSubscribers, refreshCalls, redirects, n401, probe, chat, page>>

\* ------------------------------------------------------------ response interceptor
\* faulty variants of the 401 test: the _retry mark is not consulted; any failure counts
IsUnauthorizedIgnoreRetry(q, e) == e = "401"

IsUnauthorizedAnyError(q, e) == ~q.retry

\* the test of the 401 branch: a 401 response of a request not yet marked _retry

IsUnauthorized(q, e) == e = "401" /\ ~q.retry

\* faulty variant: the flag is not consulted, every 401 starts a renewal
JoinsRefreshNever == FALSE

\* the test that sends a handler to the waiter list instead of starting a renewal

JoinsRefresh == isRefreshing

\* a handler resumed with the new token: sets the header and replays through apiClient
Resume(q, t, st) ==
    Dispatch([q EXCEPT !.told = "ok", !.resumed = t, !.auth = t], st)

\* a handler whose await threw / that returns Promise.reject: the caller's promise rejects
Reject(q, e) == [q EXCEPT !.told = e, !.result = e, !.pc = "settled"]

\* faulty variant: the subscribers are dropped without being resolved
onTokenRefreshedSkip(q, t, st) == q

\* onTokenRefreshed(token) as seen by one subscriber

onTokenRefreshed(q, t, st) == Resume(q, t, st)

\* faulty variant: the subscribers are dropped without being rejected
onTokenRefreshFailedSkip(q, e) == q

\* onTokenRefreshFailed(error) as seen by one subscriber

onTokenRefreshFailed(q, e) == Reject(q, e)

\* the initiator after a successful renewal: header, replay
InitiatorOnSuccess(q, t, st) == Resume(q, t, st)

\* faulty variant: the catch block issues the renewal call again
InitiatorRetriesRenewal(q, e) == [q EXCEPT !.pc = "refreshing"]

\* the initiator in the catch block: return Promise.reject(refreshError)

InitiatorOnFailure(q, e) == Reject(q, e)

\* faulty variant: the new session is not stored
StoreNewTokensNot(st, t) == st

\* "Store new tokens": setAccessToken, setRefreshToken

StoreNewTokens(st, t) == setRefreshToken(setAccessToken(st, t), t)

\* faulty variant: the list is not reset after the subscribers were notified
DrainedNot == refreshSubscribers

\* refreshSubscribers = [] at the end of onTokenRefreshed / onTokenRefreshFailed
Drained == <<>>

\* number of renewal calls that go on the network in a step
Issued(r) == IF req'[r].pc = "refreshing" /\ req[r].pc # "hung" THEN 1 ELSE 0

\* The backend (or the network, or the 30 s timeout of apiClient) fails request r with e:
\* the error handler of the response interceptor, then the caller.
RespondError(r, e) ==
    /\ req[r].pc = "sent"
    /\ e \in Errors
    /\ IF IsUnauthorized(req[r], e)
       THEN IF getRefreshToken(storage) = Null
            THEN \* no refresh token: clear, redirect, reject with the 401
                 /\ req' = [req EXCEPT ![r].retry = TRUE, ![r].pc = "settled",
                                       ![r].status = e, ![r].result = e]
                 /\ storage' = CallerOnError(clearTokens(storage), req[r].kind)
                 /\ state' = AuthOnError(state, req[r].kind, e)
                 /\ redirects' = redirects + 1
                 /\ UNCHANGED <<isRefreshing, refreshSubscribers, refreshCalls, n401>>
            ELSE IF JoinsRefresh
            THEN \* a renewal is in flight: subscribe and wait
                 /\ req' = [req EXCEPT ![r].retry = TRUE, ![r].pc = "queued", ![r].status = e,
                                       ![r].epoch = refreshCalls]
                 /\ refreshSubscribers' = Append(refreshSubscribers, r)
                 /\ n401' = n401 + 1
                 /\ UNCHANGED <<storage, isRefreshing, refreshCalls, redirects, state>>
            ELSE \* start the renewal: raw axios.post, not apiClient
                 /\ req' = [req EXCEPT ![r].retry = TRUE, ![r].pc = "refreshing", ![r].status = e,
                                       ![r].epoch = refreshCalls + 1, ![r].started = TRUE]
                 /\ isRefreshing' = TRUE
                 /\ refreshCalls' = refreshCalls + 1
                 /\ n401' = n401 + 1
                 /\ UNCHANGED <<storage, refreshSubscribers, redirects, state>>
       ELSE \* any other error: reject with it
            /\ req' = [req EXCEPT ![r].pc = "settled", ![r].status = e, ![r].result = e]
            /\ storage' = CallerOnError(storage, req[r].kind)
            /\ state' = AuthOnError(state, req[r].kind, e)
            /\ UNCHANGED <<isRefreshing, refreshSubscribers, refreshCalls, redirects, n401>>
    /\ UNCHANGED <<issued, probe, chat, page>>

\* The renewal call of request r answers 200 with a new session: try block, finally,
\* then the continuations of the resolved subscribers and the replays.
RefreshOk(r) ==
    /\ req[r].pc = "refreshing"
    /\ LET t == issued + 1
           st == StoreNewTokens(storage, t)
       IN /\ req' = [x \in Req |->
                        IF x = r THEN InitiatorOnSuccess(req[x], t, st)
                        ELSE IF x \in Range(refreshSubscribers) THEN onTokenRefreshed(req[x], t, st)
                        ELSE req[x]]
          /\ storage' = afterGetAccessToken(st)
          /\ issued' = t
    /\ refreshSubscribers' = Drained
    /\ isRefreshing' = FALSE
    /\ refreshCalls' = refreshCalls + Issued(r)
    /\ UNCHANGED <<redirects, n401, probe, chat, page, state>>

\* The renewal call of request r fails with e (for a call that never answers, only once
\* its timeout fires): catch block, finally, then the callers of the rejected requests.
RefreshFail(r, e) ==
    /\ \/ req[r].pc = "refreshing" /\ e \in RefreshErrors
       \/ req[r].pc \in {"refreshing", "hung"} /\ RefreshCallTimeout > 0 /\ e = "rtimeout"
    /\ req' = [x \in Req |->
                  IF x = r THEN InitiatorOnFailure(req[x], e)
                  ELSE IF x \in Range(refreshSubscribers) THEN onTokenRefreshFailed(req[x], e)
                  ELSE req[x]]
    /\ refreshSubscribers' = Drained
    /\ storage' = CallerOnError(CallersOnError(clearTokens(storage), refreshSubscribers),
                                req[r].kind)
    /\ state' = AuthOnError(AuthOnErrors(state, refreshSubscribers, e), req[r].kind, e)
    /\ redirects' = redirects + 1
    /\ isRefreshing' = FALSE
    /\ refreshCalls' = refreshCalls + Issued(r)
    /\ UNCHANGED <<issued, n401, probe, chat, page>>

\* The renewal endpoint accepts the call of request r and never answers it.
RefreshHang(r) ==
    /\ req[r].pc = "refreshing"
    /\ req' = [req EXCEPT ![r].pc = "hung"]
    /\ UNCHANGED <<storage, isRefreshing, refreshSubscribers, issued, refreshCalls, probe, chat, page, state,
                   redirects, n401>>

\* faulty variant: the renewal call is given the AbortSignal of the request that starts it
RenewalCarriesSignalOfInitiator == TRUE

\* the options of the renewal call hold headers only: no signal of any caller reaches it
\* (nor does api/agent.ts hand the caller's signal to apiClient)
RenewalCarriesSignal == FALSE

\* The caller of request r, which waits for a renewal, abandons it (controller.abort()).
Abandon(r) ==
    /\ req[r].pc \in {"queued", "refreshing", "hung"}
    /\ ~req[r].abandoned
    /\ Cardinality({x \in Req : req[x].abandoned}) < MaxAbandon
    /\ IF RenewalCarriesSignal /\ r \in Outstanding
       THEN \* the renewal call is cancelled: its await throws, catch block and finally
            /\ req' = [x \in Req |->
                          IF x = r THEN InitiatorOnFailure([req[x] EXCEPT !.abandoned = TRUE], "rcanceled")
                          ELSE IF x \in Range(refreshSubscribers)
                               THEN onTokenRefreshFailed(req[x], "rcanceled")
                          ELSE req[x]]
            /\ refreshSubscribers' = Drained
            /\ storage' = CallerOnError(CallersOnError(clearTokens(storage), refreshSubscribers),
                                        req[r].kind)
            /\ state' = AuthOnError(AuthOnErrors(state, refreshSubscribers, "rcanceled"),
                                    req[r].kind, "rcanceled")
            /\ redirects' = redirects + 1
            /\ isRefreshing' = FALSE
            /\ UNCHANGED <<issued, refreshCalls, n401, probe, chat, page>>
       ELSE \* nothing in the client listens: only the caller knows
            /\ req' = [req EXCEPT ![r].abandoned = TRUE]
            /\ UNCHANGED <<storage, isRefreshing, refreshSubscribers, issued, refreshCalls, probe, chat, page, state,
                           redirects, n401>>

\* the API client under the application's ordinary requests
Next ==
    \/ \E r \in Req : Send(r, "api")
    \/ \E r \in Req : RespondOk(r)
    \/ \E r \in Req, e \in Errors : RespondError(r, e)
    \/ \E r \in Req : RefreshOk(r)
    \/ \E r \in Req, e \in RefreshErrors \cup {"rtimeout"} : RefreshFail(r, e)
    \/ \E r \in Req : RefreshHang(r)

Spec == Init /\ [][Next]_vars

\* Every request on the network is answered or times out (apiClient: 30 s), and the event
\* loop runs the handler; an answer of the renewal endpoint is handled when it arrives.
LiveSpec ==
    /\ Spec
    /\ \A r \in Req : WF_vars(RespondOk(r) \/ \E e \in Errors : RespondError(r, e))
    /\ \A r \in Req : WF_vars(RefreshOk(r) \/ \E e \in RefreshErrors \cup {"rtimeout"} : RefreshFail(r, e))

\* the API client when every network call is answered: the renewal endpoint never hangs
AnsweredNext ==
    \/ \E r \in Req : Send(r, "api")
    \/ \E r \in Req : RespondOk(r)
    \/ \E r \in Req, e \in Errors : RespondError(r, e)
    \/ \E r \in Req : RefreshOk(r)
    \/ \E r \in Req, e \in RefreshErrors \cup {"rtimeout"} : RefreshFail(r, e)

\* an answer that has arrived is handled: the event loop does not stop while one is pending
Answer ==
    \/ \E r \in Req : RespondOk(r)
    \/ \E r \in Req, e \in Errors : RespondError(r, e)
    \/ \E r \in Req : RefreshOk(r)
    \/ \E r \in Req, e \in RefreshErrors \cup {"rtimeout"} : RefreshFail(r, e)

AnsweredSpec == Init /\ [][AnsweredNext]_vars /\ WF_vars(Answer)

\* the API client when callers may abandon requests that wait for a renewal; the server
\* answers with success or 401, the renewal endpoint with success or 401
AbandonNext ==
    \/ \E r \in Req : Send(r, "api")
    \/ \E r \in Req : RespondOk(r)
    \/ \E r \in Req : RespondError(r, "401")
    \/ \E r \in Req : RefreshOk(r)
    \/ \E r \in Req : RefreshFail(r, "r401")
    \/ \E r \in Req : Abandon(r)

AbandonSpec == Init /\ [][AbandonNext]_vars

TypeOK ==
    /\ storage \in [mem : {Null} \cup Token, sess : {Null} \cup Token, loc : {Null} \cup Token]
    /\ isRefreshing \in BOOLEAN
    /\ Range(refreshSubscribers) \subseteq Req
    /\ \A r \in Req : req[r].sends \in 0..2
    /\ issued \in Token

\* checkAuth on mount when nothing is stored: no request is made
CheckAuthSkipped ==
    /\ ~hasTokens(storage)
    /\ state' = [state EXCEPT !.isLoading = FALSE]
    /\ UNCHANGED <<storage, isRefreshing, refreshSubscribers, req, issued, refreshCalls,
                   redirects, n401, probe, chat, page>>

\* a component calls clearError()
ClearError ==
    /\ state' = clearError(state)
    /\ UNCHANGED <<storage, isRefreshing, refreshSubscribers, req, issued, refreshCalls,
                   redirects, n401, probe, chat, page>>

\* the requests issued when the calls of AuthContext are followed
AuthReq == 1..(NumReq - 1)

\* the API client under ordinary requests and the calls of AuthContext, when the backend
\* answers with success, 401 or 500 and the renewal endpoint with success or 401
AuthNext ==
    \/ \E r \in AuthReq : Send(r, "api")
    \/ \E r \in AuthReq, k \in Kinds \ {"api"} : Send(r, k)
    \/ \E r \in Req : RespondOk(r)
    \/ \E r \in Req, e \in {"401", "500"} : RespondError(r, e)
    \/ \E r \in Req : RefreshOk(r)
    \/ \E r \in Req : RefreshFail(r, "r401")
    \/ CheckAuthSkipped
    \/ ClearError

AuthSpec == Init /\ [][AuthNext]_vars

\* the API client under ordinary requests and logout, when the backend answers with
\* success or 401 and the renewal endpoint with success or 401
LogoutNext ==
    \/ \E r \in Req : Send(r, "api")
    \/ \E r \in Req : Send(r, "logout")
    \/ \E r \in Req : RespondOk(r)
    \/ \E r \in Req : RespondError(r, "401")
    \/ \E r \in Req : RefreshOk(r)
    \/ \E r \in Req : RefreshFail(r, "r401")

LogoutSpec == Init /\ [][LogoutNext]_vars

\* the API client under ordinary requests and the calls of AuthContext
SessionNext ==
    \/ Next
    \/ \E r \in Req, k \in Kinds \ {"api"} : Send(r, k)

SessionSpec == Init /\ [][SessionNext]_vars

\* ------------------------------------------------------------ handlers as parallel threads
\* The 401 handlers scheduled as preemptive threads: the test "if (isRefreshing)" and the
\* assignment "isRefreshing = true" are two steps, and steps of other handlers may fall
\* between them ("tested": the handler read isRefreshing = false and has not written yet).
StartsRenewal(r, e) ==
    IsUnauthorized(req[r], e) /\ getRefreshToken(storage) # Null /\ ~JoinsRefresh

\* the handler of request r reads isRefreshing = false
HandlerTests(r) ==
    /\ req[r].pc = "sent"
    /\ StartsRenewal(r, "401")
    /\ req' = [req EXCEPT ![r].retry = TRUE, ![r].pc = "tested", ![r].status = "401"]
    /\ n401' = n401 + 1
    /\ UNCHANGED <<storage, isRefreshing, refreshSubscribers, issued, refreshCalls, redirects,
                   probe, chat, page, state>>

\* the handler of request r writes isRefreshing = true and issues the renewal call
HandlerSets(r) ==
    /\ req[r].pc = "tested"
    /\ req' = [req EXCEPT ![r].pc = "refreshing", ![r].epoch = refreshCalls + 1,
                          ![r].started = TRUE]
    /\ isRefreshing' = TRUE
    /\ refreshCalls' = refreshCalls + 1
    /\ UNCHANGED <<storage, refreshSubscribers, issued, redirects, n401, probe, chat, page, state>>

ParallelNext ==
    \/ \E r \in Req : Send(r, "api")
    \/ \E r \in Req : RespondOk(r)
    \/ \E r \in Req : ~StartsRenewal(r, "401") /\ RespondError(r, "401")
    \/ \E r \in Req : HandlerTests(r)
    \/ \E r \in Req : HandlerSets(r)
    \/ \E r \in Req : RefreshOk(r)
    \/ \E r \in Req : RefreshFail(r, "r401")

ParallelSpec == Init /\ [][ParallelNext]_vars

\* ------------------------------------------------------------ agent chat actions
\* sendMessage(content), content not blank, up to its await
ChatSend(i) ==
    /\ ~chat.isLoading          \* AgentPage renders ChatWindow only when not loading
    /\ ~chat.isSending          \* ChatInput disabled={isSending}
    /\ chat.call[i].pc = "idle"
    /\ i > 1 => chat.call[i - 1].pc # "idle"
    /\ chat' = [chat EXCEPT
                  !.call = [AbortCurrent(chat) EXCEPT
                              ![i] = [pc |-> "inflight", aborted |-> FALSE,
                                      cid |-> chat.conversationId, outcome |-> "none",
                                      before |-> chat.messages]],
                  !.controller = i,
                  !.isSending = TRUE,
                  !.error = Nil,
                  !.messages = Append(@, <<"temp", i>>)]
    /\ UNCHANGED <<storage, isRefreshing, refreshSubscribers, req, issued, refreshCalls,
                   redirects, n401, probe, state, page>>

\* the request of call i resolves (the signal is not handed to axios, so also after abort())
ChatOk(i) ==
    /\ chat.call[i].pc = "inflight"
    /\ chat' = [chat EXCEPT
                  !.call[i].pc = "done",
                  !.call[i].outcome = "ok",
                  !.conversationId = IF chat.call[i].cid = Null THEN i ELSE @,
                  !.messages = WithoutTemp(@, i) \o << <<"user", i>>, <<"assistant", i>> >>,
                  !.isSending = FinallyIsSending(chat, i)]
    /\ UNCHANGED <<storage, isRefreshing, refreshSubscribers, req, issued, refreshCalls,
                   redirects, n401, probe, state, page>>

\* the request of call i rejects: catch block, finally
ChatFail(i) ==
    /\ chat.call[i].pc = "inflight"
    /\ chat' = IF chat.call[i].aborted
               THEN [chat EXCEPT !.call[i].pc = "done", !.call[i].outcome = "failed",
                                 !.isSending = FinallyIsSending(chat, i)]
               ELSE [chat EXCEPT !.call[i].pc = "done", !.call[i].outcome = "failed",
                                 !.messages = WithoutTemp(@, i),
                                 !.error = "Failed to send message",
                                 !.isSending = FinallyIsSending(chat, i)]
    /\ UNCHANGED <<storage, isRefreshing, refreshSubscribers, req, issued, refreshCalls,
                   redirects, n401, probe, state, page>>

\* newConversation()
NewConversation ==
    /\ chat' = [chat EXCEPT !.call = AbortCurrent(chat), !.conversationId = Null,
                            !.messages = <<>>, !.error = Nil]
    /\ UNCHANGED <<storage, isRefreshing, refreshSubscribers, req, issued, refreshCalls,
                   redirects, n401, probe, state, page>>

\* loadConversation(id) up to its await
LoadConversation ==
    /\ chat.loads < MaxLoad
    /\ chat' = [chat EXCEPT !.call = AbortCurrent(chat), !.isLoading = TRUE, !.error = Nil,
                            !.loads = @ + 1]
    /\ UNCHANGED <<storage, isRefreshing, refreshSubscribers, req, issued, refreshCalls,
                   redirects, n401, probe, state, page>>

\* getConversation(id) resolves
LoadOk ==
    /\ chat.loads > 0
    /\ chat' = [chat EXCEPT !.conversationId = NumSend + 1,
                            !.messages = << <<"loaded", 0>> >>,
                            !.isLoading = FALSE, !.loads = @ - 1]
    /\ UNCHANGED <<storage, isRefreshing, refreshSubscribers, req, issued, refreshCalls,
                   redirects, n401, probe, state, page>>

\* getConversation(id) rejects
LoadFail ==
    /\ chat.loads > 0
    /\ chat' = [chat EXCEPT !.error = "Failed to load conversation",
                            !.isLoading = FALSE, !.loads = @ - 1]
    /\ UNCHANGED <<storage, isRefreshing, refreshSubscribers, req, issued, refreshCalls,
                   redirects, n401, probe, state, page>>

ChatNext ==
    \/ \E i \in SendCall : ChatSend(i)
    \/ \E i \in SendCall : ChatOk(i)
    \/ \E i \in SendCall : ChatFail(i)
    \/ NewConversation
    \/ LoadConversation
    \/ LoadOk
    \/ LoadFail

ChatSpec == Init /\ [][ChatNext]_vars

\* every request of the chat is answered
ChatSettle ==
    \/ \E i \in SendCall : ChatOk(i) \/ ChatFail(i)
    \/ LoadOk
    \/ LoadFail

ChatLiveSpec == ChatSpec /\ WF_vars(ChatSettle)

\* ------------------------------------------------------------ analytics page actions
\* handleTabChange(tab), then the effect if activeTab or selectedExercise changed
HandleTabChange(tab) ==
    /\ page.fetchId < MaxFetch
    /\ LET p == [page EXCEPT !.activeTab = tab, !.selected = FALSE,
                             !.data = [@ EXCEPT !["exercise"] = 0, !["cardio"] = 0],
                             !.error = Nil]
       IN page' = IF tab # page.activeTab \/ page.selected THEN FetchEffect(p) ELSE p
    /\ UNCHANGED <<storage, isRefreshing, refreshSubscribers, req, issued, refreshCalls,
                   redirects, n401, probe, state, chat>>

\* handleExerciseSelect(exercise), then the effect
HandleExerciseSelect ==
    /\ page.fetchId < MaxFetch
    /\ page.activeTab # "trends"      \* showExerciseSelector
    /\ page' = FetchEffect([page EXCEPT !.selected = TRUE])
    /\ UNCHANGED <<storage, isRefreshing, refreshSubscribers, req, issued, refreshCalls,
                   redirects, n401, probe, state, chat>>

\* the time range is changed, then the effect
HandleTimeRangeChange ==
    /\ page.fetchId < MaxFetch
    /\ page' = FetchEffect(page)
    /\ UNCHANGED <<storage, isRefreshing, refreshSubscribers, req, issued, refreshCalls,
                   redirects, n401, probe, state, chat>>

\* the request of fetch f resolves: try block, finally
FetchOk(f) ==
    /\ page.fetch[f].pc = "inflight"
    /\ page' = IF IsCurrent(f, page.fetchId)
               THEN [page EXCEPT !.fetch[f].pc = "done", !.fetch[f].outcome = "ok",
                                 !.data[page.fetch[f].tab] = f, !.isLoading = FALSE]
               ELSE [page EXCEPT !.fetch[f].pc = "done", !.fetch[f].outcome = "ok"]
    /\ UNCHANGED <<storage, isRefreshing, refreshSubscribers, req, issued, refreshCalls,
                   redirects, n401, probe, state, chat>>

\* the request of fetch f rejects: catch block, finally
FetchFail(f) ==
    /\ page.fetch[f].pc = "inflight"
    /\ page' = IF IsCurrent(f, page.fetchId)
               THEN [page EXCEPT !.fetch[f].pc = "done", !.fetch[f].outcome = "failed",
                                 !.error = "Failed to load", !.isLoading = FALSE]
               ELSE [page EXCEPT !.fetch[f].pc = "done", !.fetch[f].outcome = "failed"]
    /\ UNCHANGED <<storage, isRefreshing, refreshSubscribers, req, issued, refreshCalls,
                   redirects, n401, probe, state, chat>>

PageNext ==
    \/ \E tab \in Tabs : HandleTabChange(tab)
    \/ HandleExerciseSelect
    \/ HandleTimeRangeChange
    \/ \E f \in Fetch : FetchOk(f)
    \/ \E f \in Fetch : FetchFail(f)

PageSpec == Init /\ [][PageNext]_vars

\* ------------------------------------------------------------ TokenStorage called directly
\* tokenStorage.setAccessToken(t); saved says whether sessionStorage.setItem succeeded
CallSetAccessToken(t, saved) ==
    /\ storage' = IF saved THEN setAccessToken(storage, t) ELSE setAccessTokenUnsaved(storage, t)
    /\ probe' = [last |-> t, gets |-> 0, got |-> Null]
    /\ UNCHANGED <<isRefreshing, refreshSubscribers, req, issued, refreshCalls, redirects, n401,
                   state, chat, page>>

\* tokenStorage.setRefreshToken(t)
CallSetRefreshToken(t) ==
    /\ storage' = setRefreshToken(storage, t)
    /\ UNCHANGED <<isRefreshing, refreshSubscribers, req, issued, refreshCalls, redirects, n401,
                   probe, chat, page, state>>

\* tokenStorage.clearTokens()
CallClearTokens ==
    /\ storage' = clearTokens(storage)
    /\ probe' = [last |-> Null, gets |-> 0, got |-> Null]
    /\ UNCHANGED <<isRefreshing, refreshSubscribers, req, issued, refreshCalls, redirects, n401,
                   state, chat, page>>

\* tokenStorage.getAccessToken()
CallGetAccessToken ==
    /\ probe.gets < MaxGets
    /\ probe' = [probe EXCEPT !.gets = @ + 1, !.got = getAccessToken(storage)]
    /\ storage' = afterGetAccessToken(storage)
    /\ UNCHANGED <<isRefreshing, refreshSubscribers, req, issued, refreshCalls, redirects, n401,
                   state, chat, page>>

StorageNext ==
    \/ \E t \in Token, saved \in BOOLEAN : CallSetAccessToken(t, saved)
    \/ \E t \in Token : CallSetRefreshToken(t)
    \/ CallClearTokens
    \/ CallGetAccessToken

StorageSpec == Init /\ [][StorageNext]_vars

\* ================================================================ claims
AllErrors == RefreshErrors \cup {"rtimeout"}

\* requests attached to renewal call k: the request that started it and its waiters
Attached(k) == {r \in Req : req[r].epoch = k}

\* renewal call k is no longer on the network
EpochSettled(k) == \A r \in Outstanding : req[r].epoch # k

\* the step is the failure / the success of the renewal call started by request r
RenewalFails(r) == r \in Outstanding /\ req'[r].told \in AllErrors

RenewalSucceeds(r) == r \in Outstanding /\ req'[r].told = "ok"

\* C1: at most one renewal call is outstanding in every reachable state (the flag
\* isRefreshing is set exactly while it is), and no step taken while isRefreshing is true
\* issues a renewal call.
SingleRenewalOutstanding ==
    /\ [](Cardinality(Outstanding) <= 1 /\ (isRefreshing <=> Outstanding # {}))
    /\ [][isRefreshing => refreshCalls' = refreshCalls]_vars

\* a 401 handler ran while the renewal was in flight: two waiters behind one call
SingleRenewalWitness ==
    /\ isRefreshing
    /\ Len(refreshSubscribers) = 2
    /\ Cardinality(Outstanding) = 1

\* C2: as long as no renewal has completed, N >= 1 first-time 401s handled with a refresh
\* token stored made exactly one renewal call: the first issued it, the other N-1 are
\* queued as waiters.
NoRenewalCompleted == \A r \in Req : req[r].told = "none"

SingleFlight ==
    (NoRenewalCompleted /\ n401 >= 1) =>
        /\ refreshCalls = 1
        /\ Cardinality(Outstanding) = 1
        /\ Len(refreshSubscribers) = n401 - 1
        /\ \A r \in Range(refreshSubscribers) : req[r].pc = "queued"

SingleFlightWitness ==
    /\ NoRenewalCompleted
    /\ n401 = 3
    /\ refreshCalls = 1
    /\ Len(refreshSubscribers) = 2

\* C3: the requests attached to one renewal call observe one settlement: once the call
\* has settled each of them has been told, and all were told the same thing (resumed
\* with the same token, or rejected with the same renewal error).
ConsistentSettlement ==
    \A r1, r2 \in Req :
        (req[r1].epoch # 0 /\ req[r1].epoch = req[r2].epoch /\ EpochSettled(req[r1].epoch)) =>
            /\ req[r1].told # "none"
            /\ req[r1].told = req[r2].told
            /\ req[r1].resumed = req[r2].resumed

ConsistentSettlementWitness ==
    \E k \in 1..NumReq :
        /\ Cardinality(Attached(k)) = 3
        /\ EpochSettled(k)
        /\ \A r \in Attached(k) : req[r].told = "ok" /\ req[r].resumed # Null

\* C4: when a renewal succeeds with token T2, every request attached to it is dispatched
\* once more, with Authorization: Bearer T2, which is the token the storage holds at that
\* moment and not the header that was rejected; no request is dispatched a third time.
ReplayWithNewCredential ==
    /\ [][\A r \in Req :
            (req[r].told = "none" /\ req'[r].told = "ok") =>
                /\ req'[r].pc = "sent"
                /\ req'[r].sends = req[r].sends + 1
                /\ req'[r].auth = req'[r].resumed
                /\ req'[r].auth # req[r].auth1
                /\ getAccessToken(storage') = req'[r].resumed]_vars
    /\ [][\A r \in Outstanding : RenewalSucceeds(r) =>
            \A x \in Attached(req[r].epoch) : req'[x].told = "ok" /\ req'[x].resumed = req'[r].resumed]_vars
    /\ [](\A r \in Req : req[r].sends <= 2 /\ (req[r].told = "ok" => req[r].sends = 2))

ReplayWithNewCredentialWitness ==
    /\ Cardinality({r \in Req : req[r].told = "ok" /\ req[r].pc = "sent" /\ req[r].auth = 2
                                  /\ req[r].auth1 = 1 /\ req[r].sends = 2}) = 3
    /\ getAccessToken(storage) = 2

\* C5: whatever answer a replayed request (_retry set, on the network) receives settles it:
\* a second 401 goes to the caller as the final error, the request is not dispatched a
\* third time and no renewal call is made because of it.
NoDoubleRetry ==
    [][\A r \in Req :
         (req[r].pc = "sent" /\ req[r].retry /\ req'[r] # req[r]) =>
             /\ req'[r].pc = "settled"
             /\ req'[r].result = req'[r].status
             /\ req'[r].sends = req[r].sends
             /\ refreshCalls' = refreshCalls
             /\ isRefreshing' = isRefreshing
             /\ refreshSubscribers' = refreshSubscribers]_vars

NoDoubleRetryWitness ==
    \E r \in Req :
        /\ req[r].retry /\ req[r].told = "ok" /\ req[r].sends = 2
        /\ req[r].pc = "settled" /\ req[r].result = "401"
        /\ refreshCalls = 1 /\ ~isRefreshing

\* C6: the step in which a renewal call fails leaves the token storage empty (no access
\* token, no refresh token) and performs the redirect to /login exactly once, however
\* many waiters are queued.
InvalidationOnRenewalFailure ==
    [][\A r \in Req :
         RenewalFails(r) =>
             /\ storage' = [mem |-> Null, sess |-> Null, loc |-> Null]
             /\ ~hasTokens(storage')
             /\ redirects' = redirects + 1]_vars

InvalidationOnRenewalFailureWitness ==
    /\ redirects = 1
    /\ ~hasTokens(storage)
    /\ \E k \in 1..NumReq :
        /\ Cardinality(Attached(k)) = 3
        /\ \A r \in Attached(k) : req[r].told \in RefreshErrors

\* C7: the step in which a renewal call fails rejects every request attached to it (the
\* initiator and each waiter) with the renewal error, and none of them is replayed.
RenewalFailureRejectsAll ==
    /\ [][\A r \in Req :
            RenewalFails(r) =>
                \A x \in {r} \cup Range(refreshSubscribers) \cup Attached(req[r].epoch) :
                    /\ req'[x].pc = "settled"
                    /\ req'[x].result = req'[r].told
                    /\ req'[x].told = req'[r].told
                    /\ req'[x].sends = req[x].sends]_vars
    /\ [](\A r \in Req : req[r].told \in AllErrors =>
            req[r].pc = "settled" /\ req[r].result = req[r].told /\ req[r].sends = 1)

RenewalFailureRejectsAllWitness ==
    /\ Cardinality({r \in Req : req[r].result = "rnet" /\ req[r].pc = "settled"
                                  /\ req[r].sends = 1}) = 3
    /\ refreshSubscribers = <<>>

\* C8: the failure of a renewal call (transport failure or 401) issues no renewal call,
\* queues nothing and is not counted as a handled 401; a renewal call is issued only by
\* the step that enters Refreshing, and that step issues exactly one.
RenewalNeverRetried ==
    /\ [][\A r \in Req :
            RenewalFails(r) =>
                /\ refreshCalls' = refreshCalls
                /\ Outstanding' = Outstanding \ {r}
                /\ n401' = n401
                /\ refreshSubscribers' = <<>>
                /\ ~isRefreshing']_vars
    /\ [][(refreshCalls' # refreshCalls \/ (~isRefreshing /\ isRefreshing')) =>
            /\ ~isRefreshing /\ isRefreshing'
            /\ refreshCalls' = refreshCalls + 1
            /\ Cardinality(Outstanding') = Cardinality(Outstanding) + 1]_vars

RenewalNeverRetriedWitness ==
    /\ \E r \in Req : req[r].told = "r401" /\ req[r].status = "401" /\ req[r].epoch = 1
    /\ refreshCalls = 1
    /\ n401 = 1
    /\ Outstanding = {}
    /\ ~isRefreshing

\* C9: an answer other than a 401 (another status, or no response) is rejected to the
\* caller as it is and changes nothing else: no renewal call, the stored tokens (but for
\* a logout caller's own clearing; none under Spec), the flag isRefreshing, the waiter list
\* and the redirect count stay as they are; and only requests whose last answer was a 401
\* wait for a renewal.
OnlyUnauthorizedActivates ==
    /\ [][\A r \in Req :
            (req[r].pc = "sent" /\ req'[r] # req[r] /\ req'[r].status \in {"500", "timeout"}) =>
                /\ req'[r].pc = "settled"
                /\ req'[r].result = req'[r].status
                /\ storage' = CallerOnError(storage, req[r].kind)
                /\ UNCHANGED <<isRefreshing, refreshSubscribers, refreshCalls,
                               redirects, n401>>]_vars
    /\ [](\A r \in Req : req[r].pc \in {"queued", "refreshing", "hung"} => req[r].status = "401")

OnlyUnauthorizedActivatesWitness ==
    /\ isRefreshing
    /\ refreshSubscribers # <<>>
    /\ hasTokens(storage)
    /\ \E r \in Req : req[r].pc = "settled" /\ req[r].result = "timeout" /\ ~req[r].retry

\* C10: a renewal call always settles, so the coordinator returns to Idle and every
\* queued request is resumed or rejected, also when the renewal endpoint never answers.
RenewalEventuallySettles ==
    /\ isRefreshing ~> ~isRefreshing
    /\ \A r \in Req : (req[r].pc \in {"queued", "refreshing", "hung"}) ~> (req[r].pc \in {"sent", "settled"})

\* C11: the 401s of the requests that were dispatched with one and the same access
\* credential cause one renewal call in total, whenever each 401 arrives: no two requests
\* whose first dispatch carried the same header have both started a renewal.
OneRenewalPerExpiry ==
    \A r1, r2 \in Req :
        (req[r1].started /\ req[r2].started /\ req[r1].auth1 = req[r2].auth1) => r1 = r2

\* C12: no request is lost or duplicated: a request is dispatched at most twice, its
\* caller's promise settles once (after that nothing happens to the request), and, every
\* network call being answered, every request waiting for a renewal after its 401
\* eventually stops waiting, and it does so replayed or rejected.
NoRequestLostOrDuplicated ==
    /\ [](\A r \in Req : req[r].sends <= 2 /\ (req[r].pc = "settled" <=> req[r].result # "none"))
    /\ [][\A r \in Req : req[r].result # "none" => req'[r] = req[r]]_vars
    /\ [](\A r \in Req : (req[r].epoch # 0 /\ req[r].pc \notin {"queued", "refreshing"}) =>
                               (req[r].pc = "settled" \/ req[r].sends = 2))
    /\ <>[](\A r \in Req : req[r].pc \notin {"queued", "refreshing"})

NoRequestLostOrDuplicatedWitness ==
    \E r \in Req :
        /\ ~req[r].started /\ req[r].told = "ok" /\ req[r].sends = 2
        /\ req[r].pc = "settled" /\ req[r].result = "ok"

\* C13: settle-and-drain is one step: when isRefreshing is false the waiter list is empty;
\* the list holds exactly the requests that wait, each once, all of them queued during the
\* renewal now in flight, so every waiter is drained by the settlement of its own renewal
\* and none joins between the settlement and the return to Idle.
SettleAndDrain ==
    /\ ~isRefreshing => refreshSubscribers = <<>>
    /\ \A r \in Req : req[r].pc = "queued" <=> r \in Range(refreshSubscribers)
    /\ Cardinality(Range(refreshSubscribers)) = Len(refreshSubscribers)
    /\ \A r \in Range(refreshSubscribers) :
         /\ req[r].epoch = refreshCalls
         /\ \E i \in Outstanding : req[i].epoch = refreshCalls

SettleAndDrainWitness ==
    /\ ~isRefreshing
    /\ refreshSubscribers = <<>>
    /\ Cardinality({r \in Req : ~req[r].started /\ req[r].epoch = 1 /\ req[r].told # "none"}) = 2

AbandonLeavesRenewal ==
    /\ [][\A r \in Req :
            (~req[r].abandoned /\ req'[r].abandoned) =>
                /\ Outstanding' = Outstanding
                /\ \A x \in Req \ {r} : req'[x] = req[x]
                /\ UNCHANGED <<storage, isRefreshing, refreshSubscribers, issued,
                               refreshCalls, redirects, n401>>]_vars
    /\ [][\A i \in Outstanding :
            req'[i].told # "none" =>
                \A x \in Range(refreshSubscribers) :
                    /\ req'[x].told = req'[i].told
                    /\ req'[x].resumed = req'[i].resumed
                    /\ req'[i].told = "ok" => (req'[x].pc = "sent" /\ req'[x].auth = req'[i].resumed)
                    /\ req'[i].told # "ok" => (req'[x].pc = "settled" /\ req'[x].result = req'[i].told)]_vars
    /\ [](\A r \in Req : (req[r].abandoned /\ req[r].told = "none") =>
            (isRefreshing /\ \E i \in Outstanding : req[i].epoch = req[r].epoch))

AbandonLeavesRenewalWitness ==
    \E r, x, i \in Req :
        /\ req[i].started /\ req[i].told = "ok"
        /\ req[r].abandoned /\ ~req[r].started /\ req[r].epoch = req[i].epoch
        /\ ~req[x].abandoned /\ ~req[x].started /\ req[x].epoch = req[i].epoch
        /\ req[x].told = "ok" /\ req[x].sends = 2 /\ req[x].auth = req[i].resumed

\* C16: a failed renewal is terminal until a new login. The failure leaves the client with
\* no refresh token and no renewal in progress; from such a state only a successful login
\* or signup that stores tokens leads out; and while in it no renewal call is issued and
\* every 401 answer (also to requests dispatched before the failure) is rejected to its
\* caller as the 401 it is.
NoRenewalToken == ~isRefreshing /\ getRefreshToken(storage) = Null

RenewalFailureTerminal ==
    /\ [][(\E i \in Req : RenewalFails(i)) => NoRenewalToken']_vars
    /\ [][(NoRenewalToken /\ ~NoRenewalToken') =>
            \E r \in Req :
                /\ req[r].kind \in {"login", "signup"}
                /\ req[r].pc = "sent" /\ req'[r].result = "ok"
                /\ getRefreshToken(storage') = issued' /\ issued' = issued + 1]_vars
    /\ [][NoRenewalToken =>
            /\ refreshCalls' = refreshCalls
            /\ Outstanding' = {}
            /\ \A r \in Req :
                (req[r].pc = "sent" /\ req'[r].pc # "sent" /\ req'[r].status = "401") =>
                    (req'[r].pc = "settled" /\ req'[r].result = "401" /\ req'[r].sends = req[r].sends)]_vars

RenewalFailureTerminalWitness ==
    \E i, r \in Req :
        /\ req[i].started /\ req[i].told \in AllErrors
        /\ req[r].epoch = 0 /\ req[r].sends = 1 /\ req[r].result = "401"
        /\ req[r].auth1 = req[i].auth1
        /\ refreshCalls = 1 /\ redirects = 2

\* C17: the stored tokens (what getAccessToken and getRefreshToken return) change only in
\* a step that is a successful login or signup, a successful renewal, or an invalidation
\* (failed renewal, 401 without refresh token, settled logout, failed auth check);
\* dispatching a request, a successful answer or a non-401 failure of an ordinary API
\* request, and queuing behind a renewal all leave them as they are.
StoredTokens(st) == <<getAccessToken(st), getRefreshToken(st)>>

TokenWriter ==
    \/ \E r \in Req : /\ req[r].kind \in {"login", "signup"}
                      /\ req[r].pc = "sent" /\ req'[r].result = "ok"
    \/ \E i \in Req : RenewalSucceeds(i)
    \/ \E i \in Req : RenewalFails(i)
    \/ redirects' > redirects
    \/ \E r \in Req : req[r].kind = "logout" /\ req[r].result = "none" /\ req'[r].result # "none"
    \/ \E r \in Req : /\ req[r].kind = "me" /\ req[r].result = "none"
                      /\ req'[r].result \notin {"none", "ok"}

TokensWrittenOnlyByAuth ==
    /\ [][StoredTokens(storage') # StoredTokens(storage) => TokenWriter]_vars
    /\ [][\A r \in Req :
            \/ req[r].pc = "idle" /\ req'[r].pc = "sent"
            \/ req[r].kind = "api" /\ req[r].pc = "sent" /\ req'[r].result = "ok"
            \/ req[r].kind = "api" /\ req[r].pc = "sent" /\ req'[r].result \in Errors \ {"401"}
            \/ req[r].pc = "sent" /\ req'[r].pc = "queued"
            => StoredTokens(storage') = StoredTokens(storage)]_vars

TokensWrittenOnlyByAuthWitness ==
    \E r, x \in Req :
        /\ req[r].kind = "login" /\ req[r].result = "ok"
        /\ req[x].kind = "api" /\ req[x].result = "500" /\ req[x].auth1 = getAccessToken(storage)
        /\ StoredTokens(storage) = <<issued, issued>> /\ issued > 1

\* C18: the token storage is a last-write-wins register for the access token: whatever
\* setAccessToken and clearTokens calls were made, getAccessToken returns the argument of
\* the latest setAccessToken, or null if clearTokens came after it; and getAccessToken
\* calls in a row all return that same value.
LastWriteWins ==
    /\ getAccessToken(storage) = probe.last
    /\ getAccessToken(afterGetAccessToken(storage)) = probe.last
    /\ probe.gets > 0 => probe.got = probe.last

LastWriteWinsWitness ==
    /\ probe.gets = MaxGets
    /\ probe.got = probe.last
    /\ probe.last # Null
    /\ storage.sess \notin {Null, probe.last}

\* C19: invalidation is idempotent: every invalidation (a step that sends the browser to
\* /login) leaves the storage with no access token and no refresh token, hasTokens() false;
\* when the storage was empty already the step changes nothing in it, and clearing the
\* result once more gives the same storage.
InvalidationIdempotent ==
    [][redirects' > redirects =>
        /\ getAccessToken(storage') = Null
        /\ getRefreshToken(storage') = Null
        /\ ~hasTokens(storage')
        /\ ~hasTokens(storage) => storage' = storage
        /\ clearTokens(storage') = storage']_vars

InvalidationIdempotentWitness ==
    /\ redirects >= 2
    /\ ~hasTokens(storage)
    /\ \E i, r \in Req : /\ req[i].told \in AllErrors
                         /\ req[r].epoch = 0 /\ req[r].result = "401" /\ req[r].sends = 1

\* C20: every dispatch through the client (first send or replay) made while an access
\* token T is stored carries Authorization: Bearer T, T being the token stored at that
\* moment; a first dispatch made while no access token is stored carries no
\* Authorization header.
DispatchCarriesStoredToken ==
    [][\A r \in Req :
        req'[r].sends = req[r].sends + 1 =>
            /\ getAccessToken(storage') # Null => req'[r].auth = getAccessToken(storage')
            /\ (getAccessToken(storage') = Null /\ req[r].sends = 0) =>
                    (req'[r].auth = Null /\ req'[r].auth1 = Null)
            /\ req[r].sends = 0 => req'[r].auth1 = req'[r].auth]_vars

DispatchCarriesStoredTokenWitness ==
    \E r, x \in Req :
        /\ req[r].auth1 = Null /\ req[r].sends = 2
        /\ req[r].auth = getAccessToken(storage) /\ req[r].auth # Null
        /\ req[x].sends = 1 /\ req[x].auth1 = req[r].auth

\* C21: also when the 401 handlers run as parallel threads (test and set of isRefreshing
\* are separate steps), at most one renewal call is outstanding at any time.
SingleRenewalUnderThreads == Cardinality(Outstanding) <= 1

\* request r receives a 401 answer in this step
Receives401(r) == req[r].pc = "sent" /\ req'[r].pc # "sent" /\ req'[r].status = "401"

\* the step handles the 401 of request r as terminal and invalidates the session
TerminalWithInvalidation(r) ==
    /\ refreshCalls' = refreshCalls
    /\ Outstanding' = Outstanding
    /\ refreshSubscribers' = refreshSubscribers
    /\ isRefreshing' = isRefreshing
    /\ req'[r].pc = "settled" /\ req'[r].result = "401" /\ req'[r].sends = req[r].sends
    /\ ~hasTokens(storage')
    /\ redirects' = redirects + 1

\* C22 as stated: every 401 received while no refresh token is stored is terminal (no
\* renewal call, not queued, not replayed, the caller gets the 401) and clears the stored
\* tokens with a redirect to /login, whether or not a renewal is in flight.
UnauthorizedWithoutRefreshToken ==
    [][\A r \in Req :
        (Receives401(r) /\ getRefreshToken(storage) = Null) => TerminalWithInvalidation(r)]_vars

\* C22 amended: the same for the 401 of a request that has not been replayed yet (not
\* marked _retry); the second 401 of a replayed request is terminal too but performs no
\* redirect.
FirstUnauthorizedWithoutRefreshToken ==
    /\ [][\A r \in Req :
            (Receives401(r) /\ getRefreshToken(storage) = Null /\ ~req[r].retry) =>
                TerminalWithInvalidation(r)]_vars
    /\ [][\A r \in Req :
            (Receives401(r) /\ getRefreshToken(storage) = Null /\ req[r].retry) =>
                /\ refreshCalls' = refreshCalls
                /\ refreshSubscribers' = refreshSubscribers
                /\ req'[r].pc = "settled" /\ req'[r].result = "401"
                /\ req'[r].sends = req[r].sends
                /\ redirects' = redirects]_vars

\* a first 401 was rejected for want of a refresh token while a renewal was in flight
FirstUnauthorizedWithoutRefreshTokenWitness ==
    /\ isRefreshing /\ Outstanding # {}
    /\ redirects = 1
    /\ ~hasTokens(storage)
    /\ \E r \in Req : /\ req[r].kind = "api" /\ req[r].result = "401"
                      /\ req[r].sends = 1 /\ req[r].epoch = 0 /\ req[r].auth1 # Null

\* C23: when a replayed request receives a second 401, only its caller sees it: the
\* request is rejected with the 401, and the stored tokens, isRefreshing, the waiter list
\* and the renewal calls are left as they are, with no redirect to /login.
DoubleInvalidOnlyRejects ==
    [][\A r \in Req :
        (Receives401(r) /\ req[r].sends = 2) =>
            /\ req'[r].pc = "settled" /\ req'[r].result = "401" /\ req'[r].sends = 2
            /\ storage' = CallerOnError(storage, req[r].kind)
            /\ StoredTokens(storage') = StoredTokens(storage)
            /\ \A x \in Req \ {r} : req'[x] = req[x]
            /\ UNCHANGED <<isRefreshing, refreshSubscribers, refreshCalls, redirects, n401>>]_vars

DoubleInvalidOnlyRejectsWitness ==
    \E r \in Req :
        /\ req[r].sends = 2 /\ req[r].status = "401" /\ req[r].result = "401"
        /\ req[r].auth = getAccessToken(storage)
        /\ getRefreshToken(storage) = req[r].resumed /\ req[r].resumed # Null
        /\ redirects = 0

\* C24: once a logout has completed and the storage is empty, it stays empty until a login
\* or signup succeeds: in particular a renewal that was in flight when logout ran stores
\* no token afterwards and no request is replayed with a token of that renewal.
LoggedOutStaysEmpty ==
    [][((\E r \in Req : req[r].kind = "logout" /\ req[r].result # "none")
            /\ ~hasTokens(storage)) =>
        \/ /\ ~hasTokens(storage')
           /\ \A r \in Req : req'[r].sends > req[r].sends => req'[r].auth = Null
        \/ \E r \in Req : /\ req[r].kind \in {"login", "signup"}
                          /\ req[r].pc = "sent" /\ req'[r].result = "ok"]_vars

\* C25: a 401 answer to a login or signup request is not handled as an expired session:
\* the request is rejected to its caller with the 401, no renewal call is issued, the
\* request does not wait for a renewal, the stored tokens are kept and there is no
\* redirect to /login.
RejectedLoginNotExpiry ==
    [][\A r \in Req :
        (Receives401(r) /\ req[r].kind \in {"login", "signup"}) =>
            /\ req'[r].pc = "settled" /\ req'[r].result = "401"
            /\ refreshCalls' = refreshCalls
            /\ storage' = storage
            /\ redirects' = redirects]_vars

\* C26: whenever the API call of a logout settles, with success or with any error (also
\* the error of a renewal the call waited for), the token storage is empty, the auth state
\* has user = null and isAuthenticated = false, and logout() resolves.
LogoutEndsUnauthenticated ==
    [][\A r \in Req :
        (req[r].kind = "logout" /\ req[r].result = "none" /\ req'[r].result # "none") =>
            /\ ~hasTokens(storage')
            /\ storage' = clearTokens(storage)
            /\ state'.user = Nil /\ ~state'.isAuthenticated
            /\ CallerSettles("logout", req'[r].result) = "resolved"]_vars

\* a logout after a successful login, settled by the failure of the renewal it waited for
LogoutEndsUnauthenticatedWitness ==
    \E r, x \in Req :
        /\ req[r].kind = "logout" /\ req[r].result = "r401" /\ req[r].epoch = 1
        /\ req[x].kind = "login" /\ req[x].result = "ok"
        /\ state.user = Nil /\ ~state.isAuthenticated
        /\ ~hasTokens(storage)

\* C27: in every reachable auth state isAuthenticated is true exactly when user is not
\* null; and in the step in which the API call of a login or signup settles, isLoading
\* becomes (or stays) false.
AuthStateConsistent ==
    /\ [](state.isAuthenticated <=> state.user # Nil)
    /\ [][\A r \in Req :
            (req[r].kind \in {"login", "signup"} /\ req[r].result = "none"
                /\ req'[r].result # "none") => ~state'.isLoading]_vars

AuthStateConsistentWitness ==
    \E r, x \in Req :
        /\ req[r].kind \in {"login", "signup"} /\ req[r].result \notin {"none", "ok"}
        /\ req[x].kind = "login" /\ req[x].result = "ok"
        /\ state.user = TheUser /\ state.isAuthenticated /\ ~state.isLoading
        /\ state.error = Nil

\* C28: in the agent chat, whenever no sendMessage request is in flight, isSending is
\* false or becomes false (or a new send starts): the input is never disabled for good.
IsSendingReturns ==
    (\A i \in SendCall : chat.call[i].pc # "inflight")
        ~> (~chat.isSending \/ \E i \in SendCall : chat.call[i].pc = "inflight")

\* C30: when the request of a sendMessage call that was not aborted fails, the messages
\* are again the list from before the call (its temporary message removed), error holds
\* the failure message and conversationId is what it was when the call was made.
SendFailureRollsBack ==
    [][\A i \in SendCall :
        (chat.call[i].pc = "inflight" /\ chat'.call[i].outcome = "failed"
            /\ ~chat.call[i].aborted) =>
                /\ chat'.messages = chat.call[i].before
                /\ chat'.error = "Failed to send message"
                /\ chat'.conversationId = chat.call[i].cid]_vars

\* C29: on the analytics page, when a fetch settles it writes the chart data (on success),
\* the error (on failure) and isLoading = false only if it is the fetch started last; a
\* superseded fetch writes nothing; and isLoading is false once the fetch started last
\* has settled.
LatestFetchWrites ==
    /\ [][\A f \in Fetch :
            (page.fetch[f].pc = "inflight" /\ page'.fetch[f].pc = "done") =>
                IF f = page.fetchId
                THEN /\ ~page'.isLoading
                     /\ page'.fetch[f].outcome = "ok" =>
                            /\ page'.data = [page.data EXCEPT ![page.fetch[f].tab] = f]
                            /\ page'.error = page.error
                     /\ page'.fetch[f].outcome = "failed" =>
                            /\ page'.data = page.data
                            /\ page'.error = "Failed to load"
                ELSE /\ page'.data = page.data
                     /\ page'.error = page.error
                     /\ page'.isLoading = page.isLoading]_vars
    /\ []((page.fetchId > 0 /\ page.fetch[page.fetchId].pc = "done") => ~page.isLoading)
    /\ [](\A t \in Tabs : page.data[t] # 0 =>
            (page.fetch[page.data[t]].outcome = "ok" /\ page.fetch[page.data[t]].tab = t))

\* a trends fetch resolved after it was superseded and wrote nothing; the last fetch wrote
LatestFetchWritesWitness ==
    \E f \in Fetch :
        /\ f < page.fetchId
        /\ page.fetch[f].tab = "trends" /\ page.fetch[f].outcome = "ok"
        /\ page.data["trends"] = 0
        /\ page.fetch[page.fetchId].outcome = "ok"
        /\ page.data[page.fetch[page.fetchId].tab] = page.fetchId
        /\ ~page.isLoading

====
